---- MODULE Spec2Model ----
(***************************************************************************)
(* IEVR Mod Manager: the mod list reconciliation (ModManager.scan_mods),   *)
(* the list editing and persistence of MainWindow, and the apply workflow  *)
(* (MainWindow.apply_mods, the merge worker, ViolaIntegration).            *)
(*                                                                         *)
(* The specifications share the variables:                                 *)
(*   SpecScan   ModManager.scan_mods as a function of its three inputs     *)
(*   SpecMeta   ModManager.scan_mods on a directory with its metadata      *)
(*   SpecLegacy scan_mods of the single-file application                   *)
(*   Spec       MainWindow: start-up, rescan, list edits, config file      *)
(*   SpecList   the list and the path variables edited                     *)
(*   SpecApply  the apply workflow with its worker threads                 *)
(*   SpecFair   the apply workflow with every thread scheduled             *)
(*   SpecClose  the apply workflow with close requests                     *)
(*   SpecEdit   one apply, the list edited meanwhile                       *)
(*   SpecSnap   one apply, the list and the paths edited meanwhile         *)
(***************************************************************************)
EXTENDS Naturals, Sequences, FiniteSets

VARIABLES
    disk,         \* os.listdir(mods_root) restricted to directories, in enumeration order
    config_file,  \* config.json: [valid |-> readable JSON, paths |-> its game_path,
                  \* cfgbin_path and violacli_path, mods |-> its "mods" list]
    saved_mods,   \* MainWindow.saved_mods
    mod_entries,  \* MainWindow.mod_entries (ModManager.scan_mods: existing_entries)
    window,       \* the MainWindow exists (constructed and not destroyed)
    last_op,      \* history, whichever happened last: "start", "restart" (a start
                  \* after a close), "scan", "rescan" (a scan right after a start
                  \* or a scan), "close", "path" (a path variable written), or "other"
    scan_result,  \* SpecScan: the list ModManager.scan_mods returned
    scan_done,    \* SpecScan: scan_mods has returned
    game_path,    \* MainWindow.game_path: "" unset, "missing" no such directory, "dir"
    cfgbin_path,  \* MainWindow.cfgbin_path: "" unset, "missing" no such file, "file"
    violacli_path, \* MainWindow.violacli_path: "" unset, "missing" no such file, "file"
    viola_running, \* ViolaIntegration._running
    viola_proc,   \* ViolaIntegration._proc: 0 for None, else the worker whose process it is
    workers,      \* the threads apply_mods started, each running _run_merge_and_copy
    tmp_root,     \* the temporary directory (tmp_dir) exists
    tmp_data,     \* <tmp_root>/data, the merge tool's output: "none", "file", "dir"
    game_data,    \* <game_path>/data: "none" no such directory, "empty" created and
                  \* nothing copied, "baseline", "merged", "partial"
    apply_result, \* history: how the last apply_mods call ended
    apply_tick,   \* history: flips at every apply_mods call
    close_asked,  \* history: the answer to the last "operation in progress" question
    terminated    \* history: the worker whose process stop() called terminate() on, or 0

list_vars == <<disk, config_file, saved_mods, mod_entries>>
ui_vars == <<window, last_op>>
scan_vars == <<scan_result, scan_done>>
path_vars == <<game_path, cfgbin_path, violacli_path>>
viola_vars == <<viola_running, viola_proc>>
fs_vars == <<tmp_root, tmp_data, game_data>>
close_vars == <<close_asked, terminated>>
run_vars == <<viola_vars, workers, fs_vars, apply_result, apply_tick, close_vars>>
apply_vars == <<path_vars, run_vars>>
vars == <<disk, config_file, saved_mods, mod_entries, window, last_op,
          scan_result, scan_done, game_path, cfgbin_path, violacli_path,
          viola_running, viola_proc, workers, tmp_root, tmp_data, game_data,
          apply_result, apply_tick, close_asked, terminated>>

----------------------------------------------------------------------------
(* Bounds and domains *)

\* longest persisted "mods" list drawn as an input
MaxSaved == 2
\* longest in-memory list drawn as an input of ModManager.scan_mods
MaxExisting == 1
\* threads apply_mods may start in one run
MaxWorkers == 2

\* folder names below Mods/
Names == {"A", "B", "C"}

\* the "enabled" member of a persisted entry as JSON text; "absent": no such member
JsonFlags == {"true", "false", "absent"}
JsonEntries == [name : Names, enabled : JsonFlags]
ModEntries == [name : Names, enabled : BOOLEAN]

SeqsUpTo(S, n) == UNION {[1..k -> S] : k \in 0..n}
Range(s) == {s[i] : i \in 1..Len(s)}
NoDup(s) == \A i, j \in 1..Len(s) : s[i] = s[j] => i = j
NamesOf(s) == [i \in 1..Len(s) |-> s[i].name]
DistinctNames(s) == NoDup(NamesOf(s))

RECURSIVE Restrict(_, _)
\* the subsequence of s of the members of S
Restrict(s, S) ==
    IF s = <<>> THEN <<>>
    ELSE (IF Head(s) \in S THEN <<Head(s)>> ELSE <<>>) \o Restrict(Tail(s), S)

\* a path variable and the file system: "" unset, "missing" names nothing that
\* exists, "dir" / "file" names an existing directory / file
PathStates == {"", "missing", "dir"}
FileStates == {"", "missing", "file"}

\* every enumeration order of every set of folders
Listings == {s \in SeqsUpTo(Names, Cardinality(Names)) : NoDup(s)}

\* a slot of workers: pc is the place of the thread in _run_merge_and_copy,
\* mod_paths the argument apply_mods gave it, cmd the command line merge_mods
\* built, launched whether Popen started its process, alive whether that
\* process runs, rc its exit code, ret what merge_mods returned,
\* viola_log the last message ViolaIntegration logged for it, copied whether
\* its copy wrote into the game directory, log the message
\* _run_merge_and_copy ended with
NoWorker ==
    [pc |-> "idle", violacli |-> "", cfgbin |-> "", game |-> "",
     mod_paths |-> <<>>, cmd |-> <<>>, launched |-> FALSE,
     alive |-> FALSE, rc |-> 0, ret |-> "none", viola_log |-> "none",
     copied |-> FALSE, log |-> "none"]

\* no apply was ever requested: the state of the apply workflow after __init__
ApplyIdle ==
    /\ viola_running = FALSE
    /\ viola_proc = 0
    /\ workers = [w \in 1..MaxWorkers |-> NoWorker]
    /\ tmp_data = "none"
    /\ game_data = "none"
    /\ apply_result = "none"
    /\ apply_tick = FALSE
    /\ close_asked = "none"
    /\ terminated = 0

----------------------------------------------------------------------------
(* ModManager.scan_mods *)

\* m.get("enabled", True)
get_enabled(m) == IF m.enabled = "absent" THEN TRUE ELSE m.enabled = "true"

\* a dict comprehension keeps the last value given for a key
LastIndex(names, n) ==
    CHOOSE i \in 1..Len(names) :
        names[i] = n /\ \A j \in (i + 1)..Len(names) : names[j] # n

old_map_negated(existing_entries, n) ==
    ~existing_entries[LastIndex(NamesOf(existing_entries), n)].enabled

\* old_map = {me.name: me.enabled.get() for me in existing_entries}
old_map_has(existing_entries, n) == n \in Range(NamesOf(existing_entries))
old_map(existing_entries, n) ==
    existing_entries[LastIndex(NamesOf(existing_entries), n)].enabled

\* saved_map = {m["name"]: m.get("enabled", True) for m in saved_mods}
saved_map_has(saved, n) == n \in Range(NamesOf(saved))
saved_map(saved, n) == get_enabled(saved[LastIndex(NamesOf(saved), n)])

\* saved_order = [m["name"] for m in saved_mods]
saved_order(saved) == NamesOf(saved)

InSeq(s, n) == n \in Range(s)
FilterIn(s, keep) ==
    LET Test(n) == InSeq(keep, n) IN SelectSeq(s, Test)
FilterNotIn(s, drop) ==
    LET Test(n) == ~InSeq(drop, n) IN SelectSeq(s, Test)

ordered_names_swapped(saved, mod_names) ==
    FilterNotIn(mod_names, saved_order(saved)) \o FilterIn(saved_order(saved), mod_names)

ordered_names_unfiltered(saved, mod_names) ==
    saved_order(saved) \o FilterNotIn(mod_names, saved_order(saved))

ordered_names_repeating(saved, mod_names) ==
    FilterIn(saved_order(saved), mod_names) \o mod_names

\* ordered_names = [n for n in saved_order if n in mod_names]
\*               + [n for n in mod_names if n not in saved_order]
ordered_names(saved, mod_names) ==
    FilterIn(saved_order(saved), mod_names) \o FilterNotIn(mod_names, saved_order(saved))

enabled_for_saved_first(saved, existing_entries, n) ==
    IF saved_map_has(saved, n) THEN saved_map(saved, n)
    ELSE IF old_map_has(existing_entries, n) THEN old_map(existing_entries, n)
    ELSE TRUE

\* if name in old_map ... elif name in saved_map ... else True
enabled_for(saved, existing_entries, n) ==
    IF old_map_has(existing_entries, n) THEN old_map(existing_entries, n)
    ELSE IF saved_map_has(saved, n) THEN saved_map(saved, n)
    ELSE TRUE

\* ModManager.scan_mods(saved_mods, existing_entries), mod_names the directory listing
scan_mods(mod_names, saved, existing_entries) ==
    LET names == ordered_names(saved, mod_names)
    IN  [i \in 1..Len(names) |->
            [name |-> names[i], enabled |-> enabled_for(saved, existing_entries, names[i])]]

----------------------------------------------------------------------------
(* SpecScan: scan_mods applied once to every input within the bounds *)

InitScan ==
    /\ disk \in Listings
    /\ saved_mods \in SeqsUpTo(JsonEntries, MaxSaved)
    /\ mod_entries \in {s \in SeqsUpTo(ModEntries, MaxExisting) : DistinctNames(s)}
    /\ config_file = [valid |-> FALSE, paths |-> <<"", "", "">>, mods |-> <<>>]
    /\ window = FALSE
    /\ last_op = "other"
    /\ scan_result = <<>>
    /\ scan_done = FALSE
    /\ game_path = "" /\ cfgbin_path = "" /\ violacli_path = ""
    /\ tmp_root = TRUE
    /\ ApplyIdle

CallScanMods ==
    /\ ~scan_done
    /\ scan_result' = scan_mods(disk, saved_mods, mod_entries)
    /\ scan_done' = TRUE
    /\ UNCHANGED <<list_vars, ui_vars, apply_vars>>

NextScan == CallScanMods

SpecScan == InitScan /\ [][NextScan]_vars

----------------------------------------------------------------------------
(* ModEntry, ConfigManager *)

\* ModEntry.to_dict: {"name": ..., "enabled": ...} as JSON
to_dict(me) == [name |-> me.name, enabled |-> IF me.enabled THEN "true" ELSE "false"]

\* what a write of the file can come to: "failed" is the except branch of
\* ConfigManager.save, reached after open(.., "w") has truncated the file
SaveOutcomes == {"ok", "failed"}

\* ConfigManager._get_default_config: game_path, cfgbin_path, violacli_path
DefaultPaths == <<"", "", "">>

NoConfig == [valid |-> FALSE, paths |-> DefaultPaths, mods |-> <<>>]

save_reversed(file, paths, entries, outcome) ==
    IF outcome = "ok"
    THEN [valid |-> TRUE, paths |-> paths,
          mods |-> [i \in 1..Len(entries) |-> to_dict(entries[Len(entries) + 1 - i])]]
    ELSE NoConfig

\* ConfigManager.save: the file after the call (save returns outcome = "ok")
save(file, paths, entries, outcome) ==
    IF outcome = "ok"
    THEN [valid |-> TRUE, paths |-> paths,
          mods |-> [i \in 1..Len(entries) |-> to_dict(entries[i])]]
    ELSE NoConfig

\* ConfigManager.load followed by config.get("mods", []): the defaults when
\* the file is absent or unreadable
load(file) == IF file.valid THEN file.mods ELSE <<>>

\* ConfigManager.load followed by the three config.get(<path>, "")
load_paths(file) == IF file.valid THEN file.paths ELSE DefaultPaths

RECURSIVE save_each(_, _)
\* consecutive _save_config calls, the i-th with the path variables
\* writes[i].paths and the list writes[i].entries: the files they can leave,
\* starting from one of files
save_each(files, writes) ==
    IF writes = <<>> THEN files
    ELSE save_each({save(f, Head(writes).paths, Head(writes).entries, outcome) :
                        f \in files, outcome \in SaveOutcomes},
                   Tail(writes))

----------------------------------------------------------------------------
(* MainWindow: start-up, rescan, list edits *)

\* ModsPanel.get_selected_index: 0 stands for None, i for the index i - 1
Selections == 0..Len(mod_entries)

Swap(s, i, j) == [s EXCEPT ![i] = s[j], ![j] = s[i]]

\* the list after the first k entries had enabled.set(value)
SetFirst(s, k, value) ==
    [i \in 1..Len(s) |-> IF i <= k THEN [s[i] EXCEPT !.enabled = value] ELSE s[i]]

\* MainWindow.scan_mods: the call of ModManager.scan_mods
rescan(mod_names, saved, existing_entries) ==
    scan_mods(mod_names, saved, existing_entries)

\* the _save_config calls of MainWindow.__init__ in order: _load_config sets
\* game_path, cfgbin_path, violacli_path and tmp_dir, each set running the
\* write trace while mod_entries is still the empty list of line 43; then
\* scan_mods saves the reconciled list
startup_writes(paths, entries) ==
    <<[paths |-> <<paths[1], "", "">>, entries |-> <<>>],
      [paths |-> <<paths[1], paths[2], "">>, entries |-> <<>>],
      [paths |-> paths, entries |-> <<>>],
      [paths |-> paths, entries |-> <<>>],
      [paths |-> paths, entries |-> entries]>>

\* MainWindow.__init__: _setup_callbacks, _load_config (each of the four path
\* variables it sets runs the write trace, _save_config, with mod_entries
\* still empty), then scan_mods and its _save_config
Start ==
    /\ ~window
    /\ LET loaded == load(config_file)
           paths == load_paths(config_file)
           entries == rescan(disk, loaded, <<>>)
       IN  /\ saved_mods' = loaded
           /\ mod_entries' = entries
           /\ game_path' = paths[1]
           /\ cfgbin_path' = paths[2]
           /\ violacli_path' = paths[3]
           /\ config_file' \in save_each({config_file}, startup_writes(paths, entries))
    /\ window' = TRUE
    /\ last_op' = IF last_op = "close" THEN "restart" ELSE "start"
    /\ UNCHANGED <<disk, scan_vars, run_vars>>

\* MainWindow.scan_mods (the rescan button)
ScanMods ==
    /\ window
    /\ \E outcome \in SaveOutcomes :
         LET entries == rescan(disk, saved_mods, mod_entries)
         IN  /\ mod_entries' = entries
             /\ config_file' = save(config_file, path_vars, entries, outcome)
    /\ last_op' = IF last_op \in {"start", "restart", "scan", "rescan"}
                   THEN "rescan" ELSE "scan"
    /\ UNCHANGED <<disk, saved_mods, window, scan_vars, apply_vars>>

\* a double click that toggles every mod
DoubleClick_TogglesAll(sel) ==
    /\ window
    /\ sel # 0
    /\ \E outcome \in SaveOutcomes :
         LET entries == [i \in 1..Len(mod_entries) |->
                            [mod_entries[i] EXCEPT !.enabled = ~mod_entries[i].enabled]]
         IN  /\ mod_entries' = entries
             /\ config_file' = save(config_file, path_vars, entries, outcome)
    /\ last_op' = "other"
    /\ UNCHANGED <<disk, saved_mods, window, scan_vars, apply_vars>>

\* MainWindow._on_mod_double_click; the write trace of enabled saves
DoubleClick(sel) ==
    /\ window
    /\ sel # 0
    /\ \E outcome \in SaveOutcomes :
         LET entries == [mod_entries EXCEPT ![sel].enabled = ~mod_entries[sel].enabled]
         IN  /\ mod_entries' = entries
             /\ config_file' = save(config_file, path_vars, entries, outcome)
    /\ last_op' = "other"
    /\ UNCHANGED <<disk, saved_mods, window, scan_vars, apply_vars>>

\* move_up that saves before it swaps
MoveUp_SavesFirst(sel) ==
    /\ window
    /\ ~(sel = 0 \/ sel - 1 <= 0)
    /\ \E outcome \in SaveOutcomes :
         /\ mod_entries' = Swap(mod_entries, sel - 1, sel)
         /\ config_file' = save(config_file, path_vars, mod_entries, outcome)
    /\ last_op' = "other"
    /\ UNCHANGED <<disk, saved_mods, window, scan_vars, apply_vars>>

\* MainWindow.move_up
MoveUp(sel) ==
    /\ window
    /\ ~(sel = 0 \/ sel - 1 <= 0)
    /\ \E outcome \in SaveOutcomes :
         LET entries == Swap(mod_entries, sel - 1, sel)
         IN  /\ mod_entries' = entries
             /\ config_file' = save(config_file, path_vars, entries, outcome)
    /\ last_op' = "other"
    /\ UNCHANGED <<disk, saved_mods, window, scan_vars, apply_vars>>

\* MainWindow.move_down
MoveDown(sel) ==
    /\ window
    /\ ~(sel = 0 \/ sel - 1 >= Len(mod_entries) - 1)
    /\ \E outcome \in SaveOutcomes :
         LET entries == Swap(mod_entries, sel, sel + 1)
         IN  /\ mod_entries' = entries
             /\ config_file' = save(config_file, path_vars, entries, outcome)
    /\ last_op' = "other"
    /\ UNCHANGED <<disk, saved_mods, window, scan_vars, apply_vars>>

\* MainWindow.enable_all / disable_all: every enabled.set saves through the
\* write trace, then the handler saves once more
SetAll(value) ==
    /\ window
    /\ LET n == Len(mod_entries)
           writes == [i \in 1..(n + 1) |->
                        [paths |-> path_vars,
                         entries |-> SetFirst(mod_entries, IF i <= n THEN i ELSE n, value)]]
       IN  /\ mod_entries' = SetFirst(mod_entries, n, value)
           /\ config_file' \in save_each({config_file}, writes)
    /\ last_op' = "other"
    /\ UNCHANGED <<disk, saved_mods, window, scan_vars, apply_vars>>

EnableAll == SetAll(TRUE)
DisableAll == SetAll(FALSE)

\* a path variable is written (a browse dialog, the entry field of the paths
\* window): its write trace saves
SetPath(k, value) ==
    /\ window
    /\ LET paths == [path_vars EXCEPT ![k] = value]
       IN  /\ game_path' = paths[1]
           /\ cfgbin_path' = paths[2]
           /\ violacli_path' = paths[3]
           /\ \E outcome \in SaveOutcomes :
                config_file' = save(config_file, paths, mod_entries, outcome)
    /\ last_op' = "path"
    /\ UNCHANGED <<disk, saved_mods, mod_entries, window, scan_vars, run_vars>>

\* ViolaIntegration.is_running
is_running == viola_running

\* MainWindow._on_close with no merge running: _save_config, destroy.
\* mod_entries keeps the list that was in memory at this last write.
Close ==
    /\ window
    /\ ~is_running
    /\ \E outcome \in SaveOutcomes :
         config_file' = save(config_file, path_vars, mod_entries, outcome)
    /\ window' = FALSE
    /\ saved_mods' = <<>>
    /\ last_op' = "close"
    /\ UNCHANGED <<disk, mod_entries, scan_vars, apply_vars>>

\* the user creates a folder below Mods/; the file system decides where the
\* enumeration lists it
AddFolder(n, pos) ==
    /\ n \notin Range(disk)
    /\ disk' = SubSeq(disk, 1, pos - 1) \o <<n>> \o SubSeq(disk, pos, Len(disk))
    /\ last_op' = IF window THEN "other" ELSE last_op
    /\ UNCHANGED <<config_file, saved_mods, mod_entries, window, scan_vars, apply_vars>>

\* the user deletes a folder below Mods/
RemoveFolder(n) ==
    /\ n \in Range(disk)
    /\ disk' = Restrict(disk, Names \ {n})
    /\ last_op' = IF window THEN "other" ELSE last_op
    /\ UNCHANGED <<config_file, saved_mods, mod_entries, window, scan_vars, apply_vars>>

\* the configuration files the first start-up can find: none or unreadable,
\* or the file an earlier session wrote for a list with distinct names
InitialConfigs ==
    {NoConfig} \cup
    {save(NoConfig, DefaultPaths, s, "ok") :
        s \in {t \in SeqsUpTo(ModEntries, Cardinality(Names)) : DistinctNames(t)}}

Init ==
    /\ disk \in Listings
    /\ config_file \in InitialConfigs
    /\ saved_mods = <<>>
    /\ mod_entries = <<>>
    /\ window = FALSE
    /\ last_op = "other"
    /\ scan_result = <<>>
    /\ scan_done = FALSE
    /\ game_path = "" /\ cfgbin_path = "" /\ violacli_path = ""
    /\ tmp_root = TRUE
    /\ ApplyIdle

Next ==
    \/ Start
    \/ ScanMods
    \/ \E sel \in Selections : DoubleClick(sel)
    \/ \E sel \in Selections : MoveUp(sel)
    \/ \E sel \in Selections : MoveDown(sel)
    \/ EnableAll
    \/ DisableAll
    \/ Close
    \/ \E n \in Names : \E pos \in 1..(Len(disk) + 1) : AddFolder(n, pos)
    \/ \E n \in Names : RemoveFolder(n)

Spec == Init /\ [][Next]_vars

----------------------------------------------------------------------------
(* MainWindow.apply_mods, MainWindow._run_merge_and_copy, ViolaIntegration *)

\* ModEntry.path as scan_mods sets it: os.path.join(mods_root, name)
mod_path(name) == "Mods/" \o name

get_enabled_mods_all(entries) ==
    [i \in 1..Len(entries) |-> mod_path(entries[i].name)]

\* ModManager.get_enabled_mods: the paths of the enabled entries, in list order
get_enabled_mods(entries) ==
    LET Enabled(me) == me.enabled
        enabled == SelectSeq(entries, Enabled)
    IN  [i \in 1..Len(enabled) |-> mod_path(enabled[i].name)]

\* merge_mods: cmd, with the arguments violacli_path, cfgbin_path and
\* output_dir standing for the strings passed
command(mod_paths) ==
    <<"violacli_path", "-m", "merge", "-p", "PC", "--cl", "cfgbin_path">>
    \o mod_paths \o <<"-o", "output_dir">>

\* apply_mods, "Validate paths": the first check that fails, or "ok"
validate_paths ==
    IF game_path # "dir" THEN "invalid_game"
    ELSE IF cfgbin_path # "file" THEN "invalid_cfgbin"
    ELSE IF violacli_path # "file" THEN "invalid_violacli"
    ELSE "ok"

Live(w) == workers[w].pc \notin {"idle", "done"}
\* the external process of worker w was launched and has not ended
ProcessAlive(w) == workers[w].alive

\* the slot the next thread takes
FreeSlot(w) ==
    /\ workers[w].pc = "idle"
    /\ \A v \in 1..(w - 1) : workers[v].pc # "idle"

\* _run_merge_and_copy ends: its last message
Finish(w, message) == [workers EXCEPT ![w].pc = "done", ![w].log = message]

MergeFailed_ReturnsTrue(w, message) ==
    [workers EXCEPT ![w].pc = "done", ![w].ret = "true",
                    ![w].viola_log = message, ![w].log = "returned_error"]

\* merge_mods returns False with the message it logged; _run_merge_and_copy
\* logs "violacli returned error; aborting copy." and returns
MergeFailed(w, message) ==
    [workers EXCEPT ![w].pc = "done", ![w].ret = "false",
                    ![w].viola_log = message, ![w].log = "returned_error"]

\* apply_mods: the guard "if self.viola.is_running(): ... return"
already_running == is_running

\* apply_mods while a process is running: the info box, nothing else
ApplyMods_Rejected ==
    /\ window
    /\ apply_tick' = ~apply_tick
    /\ already_running
    /\ apply_result' = "rejected"
    /\ UNCHANGED <<list_vars, ui_vars, scan_vars, path_vars, viola_vars, workers,
                   fs_vars, close_vars>>

\* apply_mods that validates the paths after it has made the temporary directory
ApplyMods_Invalid_AfterMakedirs ==
    /\ window
    /\ apply_tick' = ~apply_tick
    /\ ~already_running
    /\ validate_paths # "ok"
    /\ apply_result' = validate_paths
    /\ tmp_root' = TRUE
    /\ UNCHANGED <<list_vars, ui_vars, scan_vars, path_vars, viola_vars, workers,
                   tmp_data, game_data, close_vars>>

\* apply_mods with an invalid path: the error box, nothing else
ApplyMods_Invalid ==
    /\ window
    /\ apply_tick' = ~apply_tick
    /\ ~already_running
    /\ validate_paths # "ok"
    /\ apply_result' = validate_paths
    /\ UNCHANGED <<list_vars, ui_vars, scan_vars, path_vars, viola_vars, workers,
                   fs_vars, close_vars>>

\* apply_mods with no mod enabled, the "return" after the copy left out
ApplyMods_NoMods_ThenMerges ==
    /\ window
    /\ apply_tick' = ~apply_tick
    /\ ~already_running
    /\ validate_paths = "ok"
    /\ get_enabled_mods(mod_entries) = <<>>
    /\ game_data' = "baseline"
    /\ \E w \in 1..MaxWorkers :
         /\ FreeSlot(w)
         /\ workers' = [workers EXCEPT ![w] = [NoWorker EXCEPT !.pc = "check"]]
    /\ apply_result' = "no_mods"
    /\ UNCHANGED <<list_vars, ui_vars, scan_vars, path_vars, viola_vars, tmp_root,
                   tmp_data, close_vars>>

\* apply_mods with no mod enabled: makedirs(<game_path>/data), then copy the
\* baseline file over <game_path>/data/cpk_list.cfg.bin; either may raise
ApplyMods_NoMods ==
    /\ window
    /\ apply_tick' = ~apply_tick
    /\ ~already_running
    /\ validate_paths = "ok"
    /\ get_enabled_mods(mod_entries) = <<>>
    /\ \E made \in BOOLEAN : \E copied \in BOOLEAN :
         /\ copied => made
         /\ game_data' = IF copied THEN "baseline"
                         ELSE IF made /\ game_data = "none" THEN "empty"
                         ELSE game_data
         /\ apply_result' = IF copied THEN "no_mods" ELSE "no_mods_error"
    /\ UNCHANGED <<list_vars, ui_vars, scan_vars, path_vars, viola_vars, workers,
                   tmp_root, tmp_data, close_vars>>

\* apply_mods that passes every entry's path to the worker
ApplyMods_Start_AllMods(w) ==
    /\ window
    /\ apply_tick' = ~apply_tick
    /\ ~already_running
    /\ validate_paths = "ok"
    /\ get_enabled_mods(mod_entries) # <<>>
    /\ FreeSlot(w)
    /\ tmp_root' = TRUE
    /\ workers' = [workers EXCEPT ![w] =
                      [NoWorker EXCEPT !.pc = "check",
                                       !.violacli = violacli_path,
                                       !.cfgbin = cfgbin_path,
                                       !.game = game_path,
                                       !.mod_paths = get_enabled_mods_all(mod_entries)]]
    /\ apply_result' = "started"
    /\ UNCHANGED <<list_vars, ui_vars, scan_vars, path_vars, viola_vars, tmp_data,
                   game_data, close_vars>>

\* apply_mods with enabled mods: makedirs(tmp_root), start the thread
ApplyMods_Start(w) ==
    /\ window
    /\ apply_tick' = ~apply_tick
    /\ ~already_running
    /\ validate_paths = "ok"
    /\ get_enabled_mods(mod_entries) # <<>>
    /\ FreeSlot(w)
    /\ tmp_root' = TRUE
    /\ workers' = [workers EXCEPT ![w] =
                      [NoWorker EXCEPT !.pc = "check",
                                       !.violacli = violacli_path,
                                       !.cfgbin = cfgbin_path,
                                       !.game = game_path,
                                       !.mod_paths = get_enabled_mods(mod_entries)]]
    /\ apply_result' = "started"
    /\ UNCHANGED <<list_vars, ui_vars, scan_vars, path_vars, viola_vars, tmp_data,
                   game_data, close_vars>>

\* merge_mods testing the paths the window holds now, not its arguments
MergeMods_Check_ReadsVariables(w) ==
    /\ window
    /\ workers[w].pc = "check"
    /\ IF violacli_path # "file"
       THEN /\ workers' = MergeFailed(w, "violacli_not_found")
            /\ UNCHANGED tmp_root
       ELSE IF cfgbin_path # "file"
       THEN /\ workers' = MergeFailed(w, "cfgbin_not_found")
            /\ UNCHANGED tmp_root
       ELSE /\ workers' = [workers EXCEPT ![w].pc = "set_running",
                                          ![w].cmd = command(workers[w].mod_paths)]
            /\ tmp_root' = TRUE
    /\ UNCHANGED <<list_vars, ui_vars, scan_vars, path_vars, viola_vars, tmp_data,
                   game_data, apply_result, apply_tick, close_vars>>

\* merge_mods up to the command line: the two os.path.exists checks,
\* makedirs(output_dir), cmd
MergeMods_Check(w) ==
    /\ window
    /\ workers[w].pc = "check"
    /\ IF workers[w].violacli # "file"
       THEN /\ workers' = MergeFailed(w, "violacli_not_found")
            /\ UNCHANGED tmp_root
       ELSE IF workers[w].cfgbin # "file"
       THEN /\ workers' = MergeFailed(w, "cfgbin_not_found")
            /\ UNCHANGED tmp_root
       ELSE /\ workers' = [workers EXCEPT ![w].pc = "set_running",
                                          ![w].cmd = command(workers[w].mod_paths)]
            /\ tmp_root' = TRUE
    /\ UNCHANGED <<list_vars, ui_vars, scan_vars, path_vars, viola_vars, tmp_data,
                   game_data, apply_result, apply_tick, close_vars>>

\* merge_mods: self._running = True
MergeMods_SetRunning(w) ==
    /\ window
    /\ workers[w].pc = "set_running"
    /\ viola_running' = TRUE
    /\ workers' = [workers EXCEPT ![w].pc = "popen"]
    /\ UNCHANGED <<list_vars, ui_vars, scan_vars, path_vars, viola_proc, fs_vars,
                   apply_result, apply_tick, close_vars>>

\* merge_mods: subprocess.Popen(cmd) and self._proc = proc; when Popen raises,
\* the except branches (FileNotFoundError, Exception) log, clear _running and
\* return False
MergeMods_Popen(w) ==
    /\ window
    /\ workers[w].pc = "popen"
    /\ \E outcome \in {"launched", "execution_error", "unexpected_error"} :
         /\ outcome = "launched" => workers[w].violacli = "file"
         /\ outcome = "execution_error" => workers[w].violacli # "file"
         /\ IF outcome = "launched"
            THEN /\ workers' = [workers EXCEPT ![w].pc = "proc", ![w].alive = TRUE,
                                               ![w].launched = TRUE]
                 /\ viola_proc' = w
                 /\ UNCHANGED viola_running
            ELSE /\ workers' = MergeFailed(w, outcome)
                 /\ viola_running' = FALSE
                 /\ UNCHANGED viola_proc
    /\ UNCHANGED <<list_vars, ui_vars, scan_vars, path_vars, fs_vars, apply_result,
                   apply_tick, close_vars>>

\* the merge tool ends with an exit code; it may have written <tmp_root>/data.
\* The worker reading its output sees the end of the stream.
ProcessExit(w, rc) ==
    /\ window
    /\ ProcessAlive(w)
    /\ workers' = [workers EXCEPT ![w].alive = FALSE, ![w].rc = rc,
                                  ![w].pc = IF @ = "proc" THEN "exited" ELSE @]
    /\ tmp_data' \in (IF tmp_data = "none" THEN {"none", "file", "dir"} ELSE {tmp_data})
    /\ UNCHANGED <<list_vars, ui_vars, scan_vars, path_vars, viola_vars, tmp_root,
                   game_data, apply_result, apply_tick, close_vars>>

\* the except clause of merge_mods without its "_running = False"
MergeMods_Raise_KeepsRunning(w) ==
    /\ window
    /\ workers[w].pc = "proc"
    /\ workers' = MergeFailed(w, "unexpected_error")
    /\ UNCHANGED <<list_vars, ui_vars, scan_vars, path_vars, viola_vars, fs_vars,
                   apply_result, apply_tick, close_vars>>

\* merge_mods: reading proc.stdout raises (the output does not decode): the
\* except branch logs, clears _running, leaves _proc and returns False while
\* the tool runs on
MergeMods_Raise(w) ==
    /\ window
    /\ workers[w].pc = "proc"
    /\ workers' = MergeFailed(w, "unexpected_error")
    /\ viola_running' = FALSE
    /\ UNCHANGED <<list_vars, ui_vars, scan_vars, path_vars, viola_proc, fs_vars,
                   apply_result, apply_tick, close_vars>>

\* merge_mods returning True whatever the exit code
MergeMods_Return_IgnoresCode(w) ==
    /\ window
    /\ workers[w].pc = "exited"
    /\ viola_proc' = 0
    /\ viola_running' = FALSE
    /\ workers' = [workers EXCEPT ![w].pc = "copy", ![w].ret = "true",
                                  ![w].viola_log = "finished"]
    /\ UNCHANGED <<list_vars, ui_vars, scan_vars, path_vars, fs_vars, apply_result,
                   apply_tick, close_vars>>

\* merge_mods after proc.wait(): _proc = None, _running = False, return rc == 0;
\* on False _run_merge_and_copy logs "violacli returned error" and returns
MergeMods_Return(w) ==
    /\ window
    /\ workers[w].pc = "exited"
    /\ viola_proc' = 0
    /\ viola_running' = FALSE
    /\ workers' =
          IF workers[w].rc = 0
          THEN [workers EXCEPT ![w].pc = "copy", ![w].ret = "true",
                               ![w].viola_log = "finished"]
          ELSE MergeFailed(w, "finished")
    /\ UNCHANGED <<list_vars, ui_vars, scan_vars, path_vars, fs_vars, apply_result,
                   apply_tick, close_vars>>

\* copy_merged_files without the check of the source directory
CopyMergedFiles_Unchecked(w) ==
    /\ window
    /\ workers[w].pc = "copy"
    /\ IF tmp_data # "dir"
       THEN /\ workers' = [Finish(w, "unexpected_error") EXCEPT ![w].viola_log = "copying"]
            /\ game_data' = IF game_data = "none" THEN "empty" ELSE game_data
       ELSE /\ workers' = [workers EXCEPT ![w].pc = "cleanup", ![w].copied = TRUE,
                                          ![w].viola_log = "copy_completed"]
            /\ game_data' = "merged"
    /\ UNCHANGED <<list_vars, ui_vars, scan_vars, path_vars, viola_vars, tmp_root,
                   tmp_data, apply_result, apply_tick, close_vars>>

\* a failed copy that removes the temporary output all the same
CopyMergedFiles_Removes(w) ==
    /\ window
    /\ workers[w].pc = "copy"
    /\ IF tmp_data # "dir"
       THEN /\ workers' = [Finish(w, "copy_failed") EXCEPT ![w].viola_log = "not_found"]
            /\ UNCHANGED <<game_data, tmp_data>>
       ELSE \E complete \in BOOLEAN :
              IF complete
              THEN /\ workers' = [workers EXCEPT ![w].pc = "cleanup", ![w].copied = TRUE,
                                                 ![w].viola_log = "copy_completed"]
                   /\ game_data' = "merged"
                   /\ UNCHANGED tmp_data
              ELSE /\ workers' = [Finish(w, "unexpected_error") EXCEPT
                                     ![w].copied = TRUE, ![w].viola_log = "copying"]
                   /\ game_data' = "partial"
                   /\ tmp_data' = "none"
    /\ UNCHANGED <<list_vars, ui_vars, scan_vars, path_vars, viola_vars, tmp_root,
                   apply_result, apply_tick, close_vars>>

\* copy_merged_files: False when <tmp_root>/data is missing or no directory;
\* else makedirs and shutil.copytree, which copies what it can and raises
\* shutil.Error when a file failed: copy_merged_files catches TypeError only,
\* so _run_merge_and_copy catches it and logs "Unexpected error"
CopyMergedFiles(w) ==
    /\ window
    /\ workers[w].pc = "copy"
    /\ IF tmp_data # "dir"
       THEN /\ workers' = [Finish(w, "copy_failed") EXCEPT ![w].viola_log = "not_found"]
            /\ UNCHANGED game_data
       ELSE \E complete \in BOOLEAN :
              IF complete
              THEN /\ workers' = [workers EXCEPT ![w].pc = "cleanup", ![w].copied = TRUE,
                                                 ![w].viola_log = "copy_completed"]
                   /\ game_data' = "merged"
              ELSE /\ workers' = [Finish(w, "unexpected_error") EXCEPT
                                     ![w].copied = TRUE, ![w].viola_log = "copying"]
                   /\ game_data' = "partial"
    /\ UNCHANGED <<list_vars, ui_vars, scan_vars, path_vars, viola_vars, tmp_root,
                   tmp_data, apply_result, apply_tick, close_vars>>

\* cleanup_temp that lets the error of rmtree out
CleanupTemp_Raises(w) ==
    /\ window
    /\ workers[w].pc = "cleanup"
    /\ \E removed \in BOOLEAN :
         /\ removed => tmp_data = "dir"
         /\ tmp_data' = IF removed THEN "none" ELSE tmp_data
         /\ workers' = IF removed
                       THEN [Finish(w, "applied") EXCEPT ![w].viola_log = "removed"]
                       ELSE Finish(w, "unexpected_error")
    /\ UNCHANGED <<list_vars, ui_vars, scan_vars, path_vars, viola_vars, tmp_root,
                   game_data, apply_result, apply_tick, close_vars>>

\* cleanup_temp, then "MODS APPLIED!!": rmtree may fail, which is only logged
CleanupTemp(w) ==
    /\ window
    /\ workers[w].pc = "cleanup"
    /\ \E removed \in BOOLEAN :
         /\ removed => tmp_data = "dir"
         /\ tmp_data' = IF removed THEN "none" ELSE tmp_data
         /\ workers' = [Finish(w, "applied") EXCEPT
                           ![w].viola_log = IF removed THEN "removed" ELSE "could_not_remove"]
    /\ UNCHANGED <<list_vars, ui_vars, scan_vars, path_vars, viola_vars, tmp_root,
                   game_data, apply_result, apply_tick, close_vars>>

\* _on_close that stops the process before it asks
Close_Declined_Stops ==
    /\ window
    /\ is_running
    /\ terminated' = viola_proc
    /\ viola_proc' = 0
    /\ viola_running' = FALSE
    /\ close_asked' = "declined"
    /\ UNCHANGED <<list_vars, ui_vars, scan_vars, path_vars, workers, fs_vars,
                   apply_result, apply_tick>>

\* _on_close while is_running(): the user answers no
Close_Declined ==
    /\ window
    /\ is_running
    /\ close_asked' = "declined"
    /\ UNCHANGED <<list_vars, ui_vars, scan_vars, path_vars, viola_vars, workers,
                   fs_vars, apply_result, apply_tick, terminated>>

\* _on_close while is_running(): the user answers yes; ViolaIntegration.stop
\* (terminate() on _proc if there is one), _save_config, destroy. The worker
\* threads are daemons: they end with the interpreter.
Close_Confirmed ==
    /\ window
    /\ is_running
    /\ close_asked' = "confirmed"
    /\ terminated' = viola_proc
    /\ viola_proc' = 0
    /\ viola_running' = FALSE
    /\ \E outcome \in SaveOutcomes :
         config_file' = save(config_file, path_vars, mod_entries, outcome)
    /\ window' = FALSE
    /\ saved_mods' = <<>>
    /\ last_op' = "close"
    /\ UNCHANGED <<disk, mod_entries, scan_vars, path_vars, workers, fs_vars,
                   apply_result, apply_tick>>

\* the tool or the baseline file is deleted: a path value tells what the
\* string names now, and the arguments of a started thread are the same strings
DeleteViolacli ==
    /\ violacli_path = "file"
    /\ violacli_path' = "missing"
    /\ workers' = [v \in 1..MaxWorkers |->
                      IF workers[v].violacli = "file"
                      THEN [workers[v] EXCEPT !.violacli = "missing"] ELSE workers[v]]
    /\ UNCHANGED <<list_vars, ui_vars, scan_vars, game_path, cfgbin_path, viola_vars,
                   fs_vars, apply_result, apply_tick, close_vars>>

DeleteCfgbin ==
    /\ cfgbin_path = "file"
    /\ cfgbin_path' = "missing"
    /\ workers' = [v \in 1..MaxWorkers |->
                      IF workers[v].cfgbin = "file"
                      THEN [workers[v] EXCEPT !.cfgbin = "missing"] ELSE workers[v]]
    /\ UNCHANGED <<list_vars, ui_vars, scan_vars, game_path, violacli_path, viola_vars,
                   fs_vars, apply_result, apply_tick, close_vars>>

\* a window after start-up over two mod folders, with any flags and any paths;
\* the temporary directory may have been removed since
InitApply ==
    /\ disk = <<"A", "B">>
    /\ saved_mods = <<>>
    /\ mod_entries \in {s \in [1..2 -> ModEntries] : NamesOf(s) = disk}
    /\ game_path \in PathStates
    /\ cfgbin_path \in FileStates
    /\ violacli_path \in FileStates
    /\ config_file = save(NoConfig, path_vars, mod_entries, "ok")
    /\ window = TRUE
    /\ last_op = "other"
    /\ scan_result = <<>>
    /\ scan_done = FALSE
    /\ tmp_root \in BOOLEAN
    /\ ApplyIdle

NextApply ==
    \/ ApplyMods_Rejected
    \/ ApplyMods_Invalid
    \/ ApplyMods_NoMods
    \/ \E w \in 1..MaxWorkers : ApplyMods_Start(w)
    \/ \E w \in 1..MaxWorkers : MergeMods_Check(w)
    \/ \E w \in 1..MaxWorkers : MergeMods_SetRunning(w)
    \/ \E w \in 1..MaxWorkers : MergeMods_Popen(w)
    \/ \E w \in 1..MaxWorkers : \E rc \in {0, 1} : ProcessExit(w, rc)
    \/ \E w \in 1..MaxWorkers : MergeMods_Raise(w)
    \/ \E w \in 1..MaxWorkers : MergeMods_Return(w)
    \/ \E w \in 1..MaxWorkers : CopyMergedFiles(w)
    \/ \E w \in 1..MaxWorkers : CleanupTemp(w)
    \/ DeleteViolacli
    \/ DeleteCfgbin

SpecApply == InitApply /\ [][NextApply]_vars

----------------------------------------------------------------------------
(* SpecList: a window over two mod folders, the list and the paths edited *)

InitList == InitApply /\ tmp_root

NextList ==
    \/ ScanMods
    \/ \E sel \in Selections : DoubleClick(sel)
    \/ \E sel \in Selections : MoveUp(sel)
    \/ \E sel \in Selections : MoveDown(sel)
    \/ EnableAll
    \/ DisableAll
    \/ \E value \in PathStates : SetPath(1, value)
    \/ \E k \in {2, 3} : \E value \in FileStates : SetPath(k, value)

SpecList == InitList /\ [][NextList]_vars

----------------------------------------------------------------------------
(* SpecClose: the apply workflow over valid paths, with close requests *)

InitClose == InitApply /\ validate_paths = "ok"

NextClose ==
    \/ ApplyMods_Rejected
    \/ ApplyMods_NoMods
    \/ \E w \in 1..MaxWorkers : ApplyMods_Start(w)
    \/ \E w \in 1..MaxWorkers : MergeMods_Check(w)
    \/ \E w \in 1..MaxWorkers : MergeMods_SetRunning(w)
    \/ \E w \in 1..MaxWorkers : MergeMods_Popen(w)
    \/ \E w \in 1..MaxWorkers : \E rc \in {0, 1} : ProcessExit(w, rc)
    \/ \E w \in 1..MaxWorkers : MergeMods_Raise(w)
    \/ \E w \in 1..MaxWorkers : MergeMods_Return(w)
    \/ \E w \in 1..MaxWorkers : CopyMergedFiles(w)
    \/ \E w \in 1..MaxWorkers : CleanupTemp(w)
    \/ Close
    \/ Close_Declined
    \/ Close_Confirmed

SpecClose == InitClose /\ [][NextClose]_vars

----------------------------------------------------------------------------
(* SpecEdit: one accepted apply over valid paths, the list edited meanwhile *)

\* no thread was started yet
FirstApply == \A v \in 1..MaxWorkers : workers[v].pc = "idle"

NextEdit ==
    \/ ApplyMods_Rejected
    \/ ApplyMods_NoMods
    \/ \E w \in 1..MaxWorkers : FirstApply /\ ApplyMods_Start(w)
    \/ \E w \in 1..MaxWorkers : MergeMods_Check(w)
    \/ \E w \in 1..MaxWorkers : MergeMods_SetRunning(w)
    \/ \E w \in 1..MaxWorkers : MergeMods_Popen(w)
    \/ \E w \in 1..MaxWorkers : \E rc \in {0, 1} : ProcessExit(w, rc)
    \/ \E w \in 1..MaxWorkers : MergeMods_Raise(w)
    \/ \E w \in 1..MaxWorkers : MergeMods_Return(w)
    \/ \E w \in 1..MaxWorkers : CopyMergedFiles(w)
    \/ \E w \in 1..MaxWorkers : CleanupTemp(w)
    \/ \E sel \in Selections : DoubleClick(sel)
    \/ \E sel \in Selections : MoveUp(sel)

SpecEdit == InitClose /\ [][NextEdit]_vars

----------------------------------------------------------------------------
(* Claims about ModManager.scan_mods (SpecScan) *)

\* C1: with distinct persisted names, the names scan_mods returns are exactly
\* the existing folders, each exactly once.
C1_ExactlyExistingFolders ==
    (scan_done /\ DistinctNames(saved_mods)) =>
        /\ Range(NamesOf(scan_result)) = Range(disk)
        /\ NoDup(NamesOf(scan_result))
        /\ Len(scan_result) = Len(disk)

\* a persisted folder is gone, another is new, and two exist
C1_Witness ==
    /\ scan_done
    /\ DistinctNames(saved_mods)
    /\ Len(disk) >= 2
    /\ \E m \in Range(saved_mods) : m.name \notin Range(disk)
    /\ \E n \in Range(disk) : n \notin Range(NamesOf(saved_mods))
    /\ \E n \in Range(disk) : n \in Range(NamesOf(saved_mods))

\* C2: the result lists the persisted names that still exist, in persisted
\* order, then the folders not persisted, in enumeration order; folders A, B, C
\* with saved order [B, A] give [B, A, C].
C2_SavedOrderThenNew ==
    scan_done =>
        /\ NamesOf(scan_result) =
              Restrict(NamesOf(saved_mods), Range(disk))
              \o Restrict(disk, Names \ Range(NamesOf(saved_mods)))
        /\ (disk = <<"A", "B", "C">> /\ NamesOf(saved_mods) = <<"B", "A">>)
              => NamesOf(scan_result) = <<"B", "A", "C">>

\* the example of the specification: A, B, C on disk, saved order [B, A]
C2_Witness ==
    /\ scan_done
    /\ disk = <<"A", "B", "C">>
    /\ NamesOf(saved_mods) = <<"B", "A">>
    /\ NamesOf(scan_result) = <<"B", "A", "C">>

\* C3: a returned entry's flag is the in-memory flag if the name is in memory,
\* else the persisted flag (true when the member is absent), else true;
\* in-memory false wins over persisted true.
C3_EnabledPriority ==
    scan_done =>
        \A i \in 1..Len(scan_result) :
            LET n == scan_result[i].name
                flag == scan_result[i].enabled
            IN  /\ (\E e \in Range(mod_entries) : e.name = n)
                      => \E e \in Range(mod_entries) : e.name = n /\ flag = e.enabled
                /\ (/\ ~\E e \in Range(mod_entries) : e.name = n
                    /\ \E m \in Range(saved_mods) : m.name = n)
                      => \E m \in Range(saved_mods) :
                            m.name = n /\ flag = (m.enabled # "false")
                /\ (/\ ~\E e \in Range(mod_entries) : e.name = n
                    /\ ~\E m \in Range(saved_mods) : m.name = n)
                      => flag = TRUE
                /\ (/\ [name |-> n, enabled |-> FALSE] \in Range(mod_entries)
                    /\ [name |-> n, enabled |-> "true"] \in Range(saved_mods))
                      => flag = FALSE

\* one name disabled in memory and enabled on file, one persisted without the
\* member, one new
C3_Witness ==
    /\ scan_done
    /\ \E i, j, k \in 1..Len(scan_result) :
          /\ [name |-> scan_result[i].name, enabled |-> FALSE] \in Range(mod_entries)
          /\ [name |-> scan_result[i].name, enabled |-> "true"] \in Range(saved_mods)
          /\ scan_result[i].enabled = FALSE
          /\ [name |-> scan_result[j].name, enabled |-> "absent"] \in Range(saved_mods)
          /\ scan_result[j].name \notin Range(NamesOf(mod_entries))
          /\ scan_result[j].enabled = TRUE
          /\ scan_result[k].name \notin Range(NamesOf(mod_entries))
          /\ scan_result[k].name \notin Range(NamesOf(saved_mods))
          /\ scan_result[k].enabled = TRUE

----------------------------------------------------------------------------
(* Claims about MainWindow's list (Spec) *)

\* the (name, enabled) pairs a persisted list reads as
Parsed(saved) == [i \in 1..Len(saved) |-> [name |-> saved[i].name, enabled |-> get_enabled(saved[i])]]

\* C4: a scan that directly follows a scan (or the start-up scan), with the
\* folders and the persisted list unchanged in between, leaves the sequence of
\* (name, enabled) pairs as the first scan left it.
C4_RescanIdempotent ==
    [][last_op' = "rescan" => mod_entries' = mod_entries]_vars

\* two scans in a row over a list with a disabled mod and a folder that the
\* persisted list does not name
C4_Witness ==
    /\ last_op = "rescan"
    /\ Len(mod_entries) >= 2
    /\ \E e \in Range(mod_entries) : ~e.enabled
    /\ \E e \in Range(mod_entries) : e.name \notin Range(NamesOf(saved_mods))

\* C5 (as claimed): a scan with the folders unchanged (the list names exactly
\* the existing folders) leaves the order of mod_entries as the user arranged it.
C5_RescanKeepsUserOrder ==
    [][(last_op' \in {"scan", "rescan"} /\ Range(NamesOf(mod_entries)) = Range(disk))
          => NamesOf(mod_entries') = NamesOf(mod_entries)]_vars

\* C6: when the window was closed with the list L written to the file and the
\* folders are the ones L names, the next start-up yields L again: same names,
\* same order, same flags.
C6_RestartRestoresList ==
    [][(/\ last_op = "close"
        /\ last_op' = "restart"
        /\ config_file.valid
        /\ Range(NamesOf(mod_entries)) = Range(disk))
          => mod_entries' = mod_entries]_vars

\* a restart that found two or more mods, one disabled, in an order that is
\* not the enumeration order
C6_Witness ==
    /\ last_op = "restart"
    /\ Len(mod_entries) >= 2
    /\ \E e \in Range(mod_entries) : ~e.enabled
    /\ NamesOf(mod_entries) # disk
    /\ Range(NamesOf(mod_entries)) = Range(disk)
    /\ mod_entries = Parsed(saved_mods)

----------------------------------------------------------------------------
(* Claims about the apply workflow (SpecApply) *)

LiveWorkers == {w \in 1..MaxWorkers : Live(w)}

\* C7 (as claimed): at every moment at most one apply worker thread exists,
\* and at most one external process.
C7_AtMostOneWorker ==
    /\ Cardinality(LiveWorkers) <= 1
    /\ Cardinality({w \in 1..MaxWorkers : ProcessAlive(w)}) <= 1

\* C8 (as claimed): while an external merge process is alive, is_running() is
\* true, so that an apply_mods call in that interval is the rejected one.
C8_RunningWhileProcessAlive ==
    (\E w \in 1..MaxWorkers : ProcessAlive(w)) => is_running

\* C9: an apply_mods call that passes the running check and the path
\* validation with no mod enabled starts no thread, launches nothing, leaves
\* _running and _proc alone and, unless the copy raises, leaves the baseline
\* file at <game_path>/data/cpk_list.cfg.bin; when it raises no file is copied.
C9_NoModsCopiesBaseline ==
    [][(/\ apply_tick' # apply_tick
        /\ ~is_running
        /\ validate_paths = "ok"
        /\ \A i \in 1..Len(mod_entries) : ~mod_entries[i].enabled)
          => /\ workers' = workers
             /\ viola_running' = viola_running
             /\ viola_proc' = viola_proc
             /\ tmp_data' = tmp_data
             /\ apply_result' \in {"no_mods", "no_mods_error"}
             /\ apply_result' = "no_mods" => game_data' = "baseline"
             /\ apply_result' = "no_mods_error" => game_data' \in {game_data, "empty"}]_vars

\* an apply with every mod disabled has copied the baseline file; no thread
\* was ever started
C9_Witness ==
    /\ apply_result = "no_mods"
    /\ game_data = "baseline"
    /\ Len(mod_entries) >= 2
    /\ \A w \in 1..MaxWorkers : workers[w].pc = "idle"
    /\ ~is_running

\* C10: the step a worker takes after its tool exited with a non-zero code
\* ends the worker with the error logged; it copies nothing into the game
\* directory and deletes nothing below the temporary directory.
C10_NonZeroExitSkipsCopy ==
    [][\A w \in 1..MaxWorkers :
          (workers[w].pc = "exited" /\ workers[w].rc # 0 /\ workers'[w].pc # workers[w].pc)
             => /\ workers'[w].pc = "done"
                /\ workers'[w].log = "returned_error"
                /\ ~workers'[w].copied
                /\ game_data' = game_data
                /\ tmp_data' = tmp_data]_vars

\* a worker ended after a non-zero exit; the tool's output is still there and
\* the game directory is untouched
C10_Witness ==
    \E w \in 1..MaxWorkers :
        /\ workers[w].pc = "done"
        /\ workers[w].rc # 0
        /\ workers[w].log = "returned_error"
        /\ tmp_data = "dir"
        /\ game_data = "none"

\* C11: an apply_mods call made while a path is invalid (game path empty or no
\* directory, baseline file or tool empty or missing) changes nothing: no
\* thread, no process, no directory, no file; it ends with the error of the
\* first invalid path (or, while a merge runs, with "already running").
C11_InvalidPathRejected ==
    [][(apply_tick' # apply_tick /\ validate_paths # "ok")
          => /\ workers' = workers
             /\ viola_running' = viola_running
             /\ viola_proc' = viola_proc
             /\ tmp_root' = tmp_root
             /\ tmp_data' = tmp_data
             /\ game_data' = game_data
             /\ apply_result' \in {"rejected", "invalid_game", "invalid_cfgbin",
                                   "invalid_violacli"}
             /\ apply_result' = "rejected" <=> is_running
             /\ (~is_running /\ game_path \in {"", "missing"})
                   => apply_result' = "invalid_game"
             /\ (~is_running /\ game_path = "dir" /\ cfgbin_path \in {"", "missing"})
                   => apply_result' = "invalid_cfgbin"]_vars

\* an apply with mods enabled was refused for the tool path; the temporary
\* directory does not exist and nothing was started
C11_Witness ==
    /\ apply_result = "invalid_violacli"
    /\ violacli_path = "missing"
    /\ \E i \in 1..Len(mod_entries) : mod_entries[i].enabled
    /\ ~tmp_root
    /\ game_data = "none"
    /\ \A w \in 1..MaxWorkers : workers[w].pc = "idle"

----------------------------------------------------------------------------
(* Claims about the command line (SpecEdit) *)

RECURSIVE PathsOfEnabled(_)
\* the paths of the enabled entries of a list, in list order
PathsOfEnabled(entries) ==
    IF entries = <<>> THEN <<>>
    ELSE (IF Head(entries).enabled THEN <<"Mods/" \o Head(entries).name>> ELSE <<>>)
         \o PathsOfEnabled(Tail(entries))

\* C12: the thread apply_mods starts gets the paths of exactly the enabled
\* entries, in the order of the list at the call; edits of the list after the
\* call do not change them; the command launched is tool, -m, merge, -p, PC,
\* --cl, baseline, those paths, -o, output directory.
C12_CommandLine ==
    [][\A w \in 1..MaxWorkers :
          /\ (workers[w].pc = "idle" /\ workers'[w].pc # "idle")
                => workers'[w].mod_paths = PathsOfEnabled(mod_entries)
          /\ workers[w].pc # "idle"
                => workers'[w].mod_paths = workers[w].mod_paths
          /\ workers[w].cmd # <<>>
                => workers'[w].cmd = workers[w].cmd
          /\ workers'[w].launched
                => workers'[w].cmd =
                      <<"violacli_path", "-m", "merge", "-p", "PC", "--cl", "cfgbin_path">>
                      \o workers'[w].mod_paths \o <<"-o", "output_dir">>]_vars

\* a process was launched for B alone, A being disabled at the call; since
\* then B was moved and A enabled
C12_Witness ==
    \E w \in 1..MaxWorkers :
        /\ workers[w].launched
        /\ workers[w].cmd = <<"violacli_path", "-m", "merge", "-p", "PC", "--cl",
                              "cfgbin_path", "Mods/B", "-o", "output_dir">>
        /\ PathsOfEnabled(mod_entries) = <<"Mods/B", "Mods/A">>

----------------------------------------------------------------------------
(* Claims about the merge worker (SpecApply) *)

C14_LaunchFailureDistinct ==
    \A w \in 1..MaxWorkers :
        workers[w].viola_log \in {"violacli_not_found", "execution_error"}
            => workers[w].log # "returned_error"

\* C15 (as claimed): a copy in which a file fails still has copy_merged_files
\* return True ("Copy completed."), and the workflow goes on to the cleanup.
C15_FileFailureContinues ==
    [][\A w \in 1..MaxWorkers :
          (workers[w].pc = "copy" /\ workers'[w].pc # workers[w].pc /\ game_data' = "partial")
             => /\ workers'[w].pc = "cleanup"
                /\ workers'[w].viola_log = "copy_completed"]_vars

\* C16: when the copy succeeded and the temporary output is not removed, the
\* worker still ends with "MODS APPLIED!!"; cleanup_temp has logged the
\* failure, and nothing else changes.
C16_CleanupFailureNotFatal ==
    [][\A w \in 1..MaxWorkers :
          (/\ workers[w].pc = "cleanup"
           /\ workers'[w].pc # workers[w].pc
           /\ tmp_data' = tmp_data)
             => /\ workers[w].copied
                /\ workers'[w].pc = "done"
                /\ workers'[w].log = "applied"
                /\ workers'[w].viola_log = "could_not_remove"
                /\ game_data' = game_data]_vars

\* a worker ended with success although the temporary output is still there
C16_Witness ==
    \E w \in 1..MaxWorkers :
        /\ workers[w].pc = "done"
        /\ workers[w].log = "applied"
        /\ workers[w].viola_log = "could_not_remove"
        /\ tmp_data = "dir"
        /\ game_data = "merged"

\* C17: after a zero exit with <tmp_root>/data missing or not a directory, the
\* copy step ends the worker with "Failed to copy merged files."; the game's
\* data directory is neither created nor changed and nothing is deleted.
C17_MissingOutputFails ==
    [][\A w \in 1..MaxWorkers :
          (workers[w].pc = "copy" /\ workers'[w].pc # workers[w].pc /\ tmp_data # "dir")
             => /\ workers[w].rc = 0
                /\ workers'[w].pc = "done"
                /\ workers'[w].log = "copy_failed"
                /\ workers'[w].viola_log = "not_found"
                /\ ~workers'[w].copied
                /\ game_data' = game_data
                /\ tmp_data' = tmp_data
                /\ tmp_root' = tmp_root]_vars

\* the tool exited with zero and left a file where its output directory
\* should be; the worker failed and the game has no data directory
C17_Witness ==
    \E w \in 1..MaxWorkers :
        /\ workers[w].pc = "done"
        /\ workers[w].ret = "true"
        /\ workers[w].log = "copy_failed"
        /\ tmp_data = "file"
        /\ game_data = "none"

\* C18: a worker writes into <game_path>/data only in its copy step, after
\* its own process exited with zero and merge_mods returned True; it deletes
\* the temporary output only in its cleanup step, after its copy completed;
\* a step that ends it in failure deletes nothing.
C18_PhaseOrder ==
    [][\A w \in 1..MaxWorkers :
          workers'[w].pc # workers[w].pc =>
            /\ game_data' # game_data
                  => /\ workers[w].pc = "copy"
                     /\ workers[w].launched
                     /\ ~workers[w].alive
                     /\ workers[w].rc = 0
                     /\ workers[w].ret = "true"
            /\ (tmp_data # "none" /\ tmp_data' = "none")
                  => /\ workers[w].pc = "cleanup"
                     /\ workers[w].copied
                     /\ workers[w].viola_log = "copy_completed"
            /\ (workers[w].pc # "done" /\ workers'[w].pc = "done"
                /\ workers'[w].log # "applied")
                  => tmp_data' = tmp_data]_vars

\* a worker went through merge, copy and cleanup
C18_Witness ==
    \E w \in 1..MaxWorkers :
        /\ workers[w].pc = "done"
        /\ workers[w].log = "applied"
        /\ workers[w].viola_log = "removed"
        /\ workers[w].copied
        /\ tmp_data = "none"
        /\ game_data = "merged"

----------------------------------------------------------------------------
(* Claims about persistence (SpecList) *)

\* C19: while the window is open and the last write of the file succeeded
\* (the file reads back), its "mods" list is the in-memory list: the same
\* (name, enabled) pairs in the same order. Every handler that changes the
\* list or a path ends with the write.
C19_SavedListIsMemoryList ==
    (window /\ config_file.valid) =>
        /\ Len(config_file.mods) = Len(mod_entries)
        /\ \A i \in 1..Len(mod_entries) :
              /\ config_file.mods[i].name = mod_entries[i].name
              /\ config_file.mods[i].enabled =
                    (IF mod_entries[i].enabled THEN "true" ELSE "false")

\* after edits of the order and of a flag, and then of a path, the file
\* holds the list
C19_Witness ==
    /\ window
    /\ config_file.valid
    /\ last_op = "path"
    /\ config_file.paths = <<"dir", "file", "file">>
    /\ Len(mod_entries) >= 2
    /\ NamesOf(mod_entries) # disk
    /\ Range(NamesOf(mod_entries)) = Range(disk)
    /\ \E e \in Range(mod_entries) : ~e.enabled
    /\ NamesOf(config_file.mods) = NamesOf(mod_entries)

----------------------------------------------------------------------------
(* Claims about closing (SpecClose) *)

\* a worker is inside merge_mods between "_running = True" and its return
MergeInProgress == \E w \in 1..MaxWorkers : workers[w].pc \in {"popen", "proc", "exited"}

\* C20: terminate() is called only by a close request the user confirmed; a
\* declined request changes nothing (no termination, no write of the file,
\* the window stays); with no merge in progress the window closes without the
\* question and without stop(); a close while is_running() is a confirmed one.
C20_CloseAsksWhileMerging ==
    [][/\ terminated' # terminated
            => (is_running /\ close_asked' = "confirmed" /\ ~window')
       /\ (close_asked' = "declined" /\ close_asked # "declined")
            => /\ is_running
               /\ window' /\ window
               /\ config_file' = config_file
               /\ terminated' = terminated
               /\ viola_proc' = viola_proc
               /\ viola_running' = viola_running
               /\ workers' = workers
       /\ (window /\ ~window' /\ ~MergeInProgress)
            => /\ ~is_running
               /\ close_asked' = close_asked
               /\ terminated' = terminated
               /\ viola_proc' = viola_proc
               /\ viola_running' = viola_running
       /\ (window /\ ~window' /\ is_running)
            => close_asked' = "confirmed"]_vars

\* the window was closed on confirmation while a process was alive, and
\* terminate() was called on it
C20_Witness ==
    /\ ~window
    /\ close_asked = "confirmed"
    /\ terminated # 0
    /\ workers[terminated].alive
    /\ ~viola_running

\* C21: no failure of the apply workflow is an exception: merge_mods,
\* copy_merged_files and cleanup_temp report every failure as a returned
\* boolean, so no finished run of the worker ended in the except clause of
\* _run_merge_and_copy ("Unexpected error"); every finished run logged the
\* success message, "returned error" or "Failed to copy".
C21_FailuresAreBooleans ==
    \A w \in 1..MaxWorkers :
        workers[w].pc = "done"
           => workers[w].log \in {"applied", "returned_error", "copy_failed"}

\* C22: reached from a persisted list with distinct names, by scans, moves,
\* toggles, enable_all and disable_all with folders added or removed in
\* between, mod_entries never holds two entries with the same name.
C22_NamesStayDistinct ==
    DistinctNames(mod_entries)

C22_Witness ==
    /\ window
    /\ last_op = "rescan"
    /\ Len(mod_entries) = 2
    /\ Len(saved_mods) >= 2
    /\ \E i \in 1..Len(saved_mods) : ~InSeq(NamesOf(mod_entries), saved_mods[i].name)
    /\ NamesOf(mod_entries) # disk

----------------------------------------------------------------------------
(* SpecFair: the apply workflow over valid paths, every thread scheduled   *)
(* and every external process ending                                       *)

\* one step of the thread apply_mods started as worker w, or the end of its process
WorkerStep(w) ==
    \/ MergeMods_Check(w)
    \/ MergeMods_SetRunning(w)
    \/ MergeMods_Popen(w)
    \/ \E rc \in {0, 1} : ProcessExit(w, rc)
    \/ MergeMods_Raise(w)
    \/ MergeMods_Return(w)
    \/ CopyMergedFiles(w)
    \/ CleanupTemp(w)

\* a started daemon thread keeps being scheduled while the window exists, and
\* the process it waits for ends
Fairness == \A w \in 1..MaxWorkers : WF_vars(WorkerStep(w))

InitFair ==
    /\ InitClose
    /\ tmp_root
    /\ \A i \in 1..Len(mod_entries) : mod_entries[i].enabled

NextFair ==
    \/ \E w \in 1..MaxWorkers : ApplyMods_Start(w)
    \/ \E w \in 1..MaxWorkers : WorkerStep(w)
    \/ DeleteViolacli
    \/ DeleteCfgbin

SpecFair == InitFair /\ [][NextFair]_vars /\ Fairness

\* C23: every accepted apply returns to Idle when its process ends: each
\* started worker finishes, on every path of merge_mods, and once no worker
\* is left is_running() is false, so the next apply_mods is not rejected
\* as already running.
C23_ApplyReturnsToIdle ==
    /\ \A w \in 1..MaxWorkers : Live(w) ~> (workers[w].pc = "done")
    /\ [](LiveWorkers = {} => ~is_running)

C23_Witness ==
    /\ LiveWorkers = {}
    /\ ~is_running
    /\ \E w \in 1..MaxWorkers : workers[w].viola_log = "unexpected_error"
    /\ \E w \in 1..MaxWorkers : workers[w].viola_log = "violacli_not_found"

\* C24: the process handle and the running flag are written by the worker
\* only: no step of the interactive thread (an apply_mods call, a close
\* request with its stop()) assigns _proc or _running.
C24_InteractiveThreadOnlyReads ==
    [][(apply_tick' # apply_tick \/ close_asked' # close_asked \/ window' # window)
          => (viola_proc' = viola_proc /\ viola_running' = viola_running)]_vars

----------------------------------------------------------------------------
(* SpecLegacy: scan_mods of the single-file application (IEVRModManager)   *)
(* applied to every input within the bounds                                *)

\* ordered_names = saved_order + [n for n in names if n not in saved_order]
legacy_ordered_names(saved, names) ==
    saved_order(saved) \o FilterNotIn(names, saved_order(saved))

\* the loop of IEVRModManager.scan_mods building self.mod_entries
legacy_scan_mods(names, saved, existing_entries) ==
    LET ordered == legacy_ordered_names(saved, names)
    IN  [i \in 1..Len(ordered) |->
            [name |-> ordered[i],
             enabled |-> enabled_for(saved, existing_entries, ordered[i])]]

\* IEVRModManager.scan_mods, its _save_config included
LegacyScanMods ==
    /\ last_op # "scan"
    /\ mod_entries' = legacy_scan_mods(disk, saved_mods, mod_entries)
    /\ \E outcome \in SaveOutcomes :
         config_file' = save(config_file, path_vars, mod_entries', outcome)
    /\ last_op' = "scan"
    /\ UNCHANGED <<disk, saved_mods, window, scan_vars, apply_vars>>

NextLegacy == LegacyScanMods

SpecLegacy == InitScan /\ [][NextLegacy]_vars

\* C25: in the single-file application a folder that is listed in the
\* persisted configuration and no longer exists is dropped by the scan:
\* after scan_mods the names of mod_entries are exactly the existing folders.
C25_LegacyScanDropsRemoved ==
    last_op = "scan" => Range(NamesOf(mod_entries)) = Range(disk)

\* C27: a mod dropped by a scan is gone for good: when its folder is
\* re-created, the next MainWindow.scan_mods places it as a new mod, after
\* every mod that was in the list before the scan, whatever position the
\* list loaded at start-up gave it.
C27_RecreatedFolderIsNew ==
    [][(window /\ window' /\ last_op' \in {"scan", "rescan"})
          => \A i, j \in 1..Len(mod_entries') :
                (/\ ~InSeq(NamesOf(mod_entries), mod_entries'[i].name)
                 /\ InSeq(NamesOf(mod_entries), mod_entries'[j].name)) => j < i]_vars

\* the lists s and t differ at most at the positions in the set at
SameExceptAt(s, t, at) ==
    /\ Len(t) = Len(s)
    /\ \A i \in (1..Len(s)) \ at : t[i] = s[i]

\* C28: list edits keep what they are not meant to change. move_up and
\* move_down happen only with a selection that has a neighbour on that side,
\* exchange the selected entry with that neighbour and leave every other
\* entry, every flag and the set of names alone; a toggle flips the flag of
\* the selected mod and nothing else; enable_all and disable_all keep the
\* order and the names and set every flag to their value.
C28_ListEditsKeepTheRest ==
    [][/\ \A sel \in Selections :
            /\ MoveUp(sel)
                 => /\ sel >= 2
                    /\ SameExceptAt(mod_entries, mod_entries', {sel - 1, sel})
                    /\ mod_entries'[sel - 1] = mod_entries[sel]
                    /\ mod_entries'[sel] = mod_entries[sel - 1]
            /\ MoveDown(sel)
                 => /\ sel >= 1 /\ sel < Len(mod_entries)
                    /\ SameExceptAt(mod_entries, mod_entries', {sel, sel + 1})
                    /\ mod_entries'[sel + 1] = mod_entries[sel]
                    /\ mod_entries'[sel] = mod_entries[sel + 1]
            /\ DoubleClick(sel)
                 => /\ sel >= 1
                    /\ SameExceptAt(mod_entries, mod_entries', {sel})
                    /\ mod_entries'[sel].name = mod_entries[sel].name
                    /\ mod_entries'[sel].enabled = ~mod_entries[sel].enabled
       /\ \A value \in BOOLEAN :
            SetAll(value)
                 => /\ NamesOf(mod_entries') = NamesOf(mod_entries)
                    /\ \A i \in 1..Len(mod_entries) : mod_entries'[i].enabled = value]_vars

C28_Witness ==
    /\ window
    /\ last_op = "other"
    /\ NamesOf(mod_entries) = <<"B", "A">>
    /\ mod_entries[1].enabled /\ ~mod_entries[2].enabled
    /\ config_file.valid /\ Len(config_file.mods) = 2

\* a list as _save_config writes it
Written(entries) == [i \in 1..Len(entries) |-> to_dict(entries[i])]

\* C29: start-up never loses the persisted mod state: every configuration
\* write made while MainWindow starts writes, as its mods list, either the
\* list that was persisted or the reconciled list.
C29_StartupWritesKeepMods ==
    [][(~window /\ window')
          => LET writes == startup_writes(load_paths(config_file), mod_entries')
             IN  \A i \in 1..Len(writes) :
                    Written(writes[i].entries)
                        \in {load(config_file), Written(mod_entries')}]_vars

----------------------------------------------------------------------------
(* SpecMeta: ModManager.scan_mods on a mods directory with its mod_data.json *)
(* files, applied once to every input within the bounds                     *)

\* what the path of the mods directory names when scan_mods is called
RootStates == {"absent", "dir", "file"}

\* <mod>/mod_data.json: absent; open() raises; json.load raises; valid JSON
\* that is not an object; an object with every field; an object without "Name"
MetaStates == {"absent", "unreadable", "malformed", "not_object", "full", "no_name"}

\* ModManager._load_mod_metadata
load_mod_metadata(name, meta) ==
    LET metadata == [display_name |-> name, author |-> "", mod_version |-> "",
                     game_version |-> ""]
    IN  CASE meta = "full" ->
                [display_name |-> "Name", author |-> "Author",
                 mod_version |-> "ModVersion", game_version |-> "GameVersion"]
          [] meta = "no_name" ->
                [metadata EXCEPT !.author = "Author", !.mod_version = "ModVersion",
                                 !.game_version = "GameVersion"]
          [] OTHER -> metadata

\* ModManager.scan_mods on the directory: os.makedirs(exist_ok=True) raises
\* FileExistsError when the path names a file; no handler in scan_mods
scan_mods_from_disk(root, listing, metas, saved, existing_entries) ==
    IF root = "file"
    THEN [raised |-> TRUE, entries |-> <<>>]
    ELSE LET mod_names == IF root = "dir" THEN listing ELSE <<>>
             names == ordered_names(saved, mod_names)
         IN  [raised |-> FALSE,
              entries |->
                 [i \in 1..Len(names) |->
                     [name |-> names[i],
                      enabled |-> enabled_for(saved, existing_entries, names[i]),
                      metadata |-> load_mod_metadata(names[i], metas[names[i]])]]]

InitMeta ==
    /\ disk \in Listings
    /\ saved_mods \in SeqsUpTo(JsonEntries, MaxExisting)
    /\ mod_entries = <<>>
    /\ config_file = NoConfig
    /\ window = FALSE
    /\ last_op = "other"
    /\ scan_result = <<>>
    /\ scan_done = FALSE
    /\ game_path = "" /\ cfgbin_path = "" /\ violacli_path = ""
    /\ tmp_root = TRUE
    /\ ApplyIdle

\* one call; scan_result records the directory it met and what came back
CallScanModsFromDisk ==
    /\ ~scan_done
    /\ \E root \in RootStates : \E metas \in [Range(disk) -> MetaStates] :
         /\ root # "dir" => disk = <<>>
         /\ scan_result' =
               [root |-> root, metas |-> metas,
                call |-> scan_mods_from_disk(root, disk, metas, saved_mods, mod_entries)]
    /\ scan_done' = TRUE
    /\ UNCHANGED <<list_vars, ui_vars, apply_vars>>

NextMeta == CallScanModsFromDisk

SpecMeta == InitMeta /\ [][NextMeta]_vars

\* C26: ModManager.scan_mods has no error outcome: whatever the mods
\* directory is (a missing one is created and gives the empty list) and
\* whatever names and optional flags are persisted, it returns a list and
\* raises nothing; a mod whose mod_data.json cannot be read or parsed gets
\* its folder name as display name and empty strings for the other fields.
C26_ScanNeverRaises ==
    scan_done =>
        /\ ~scan_result.call.raised
        /\ scan_result.root = "absent" => scan_result.call.entries = <<>>
        /\ \A i \in 1..Len(scan_result.call.entries) :
              LET e == scan_result.call.entries[i]
              IN  scan_result.metas[e.name] \in {"unreadable", "malformed", "not_object"}
                     => e.metadata = [display_name |-> e.name, author |-> "",
                                      mod_version |-> "", game_version |-> ""]

----------------------------------------------------------------------------
(* SpecSnap: one accepted apply over valid paths; the list is toggled,     *)
(* reordered and rescanned and the path variables are cleared meanwhile    *)

InitSnap == InitClose /\ tmp_root

NextSnap ==
    \/ \E w \in 1..MaxWorkers : FirstApply /\ ApplyMods_Start(w)
    \/ \E w \in 1..MaxWorkers : MergeMods_Check(w)
    \/ \E w \in 1..MaxWorkers : MergeMods_SetRunning(w)
    \/ \E w \in 1..MaxWorkers : MergeMods_Popen(w)
    \/ \E w \in 1..MaxWorkers : \E rc \in {0, 1} : ProcessExit(w, rc)
    \/ \E w \in 1..MaxWorkers : MergeMods_Raise(w)
    \/ \E w \in 1..MaxWorkers : MergeMods_Return(w)
    \/ \E w \in 1..MaxWorkers : CopyMergedFiles(w)
    \/ \E w \in 1..MaxWorkers : CleanupTemp(w)
    \/ ScanMods
    \/ \E sel \in Selections : DoubleClick(sel)
    \/ \E sel \in Selections : MoveUp(sel)
    \/ \E k \in 1..3 : SetPath(k, "")

SpecSnap == InitSnap /\ [][NextSnap]_vars

\* the arguments of the thread of worker w
ThreadArgs(w) ==
    <<workers[w].violacli, workers[w].cfgbin, workers[w].mod_paths, workers[w].game>>

\* C30: an apply in flight works on the snapshot taken at the apply_mods
\* call: the thread's arguments are the paths and the enabled mods of that
\* moment; toggles, moves, rescans and edits of the path variables change no
\* worker and no directory; the command line, once built, stays; merge_mods
\* tests the tool and baseline it was given, and the copy writes the game
\* directory it was given, whatever the window holds by then.
C30_ApplyWorksOnSnapshot ==
    [][/\ \A w \in 1..MaxWorkers :
            /\ (workers[w].pc = "idle" /\ workers'[w].pc # "idle")
                  => ThreadArgs(w)' = <<violacli_path, cfgbin_path,
                                        PathsOfEnabled(mod_entries), game_path>>
            /\ workers[w].pc # "idle" => ThreadArgs(w)' = ThreadArgs(w)
            /\ workers[w].cmd # <<>> => workers'[w].cmd = workers[w].cmd
            /\ (workers[w].pc = "check" /\ workers'[w].pc # "check")
                  => /\ workers'[w].pc = "set_running"
                     /\ workers'[w].cmd =
                           <<"violacli_path", "-m", "merge", "-p", "PC", "--cl",
                             "cfgbin_path">> \o workers[w].mod_paths
                           \o <<"-o", "output_dir">>
            /\ (workers[w].pc = "copy" /\ workers'[w].pc # "copy" /\ tmp_data = "dir")
                  => game_data' \in {"merged", "partial"}
       /\ (path_vars' # path_vars \/ mod_entries' # mod_entries)
             => /\ workers' = workers
                /\ <<tmp_root, tmp_data, game_data>>' = <<tmp_root, tmp_data, game_data>>]_vars

C30_Witness ==
    \E w \in 1..MaxWorkers :
        /\ workers[w].log = "applied"
        /\ ThreadArgs(w) = <<"file", "file", <<"Mods/A">>, "dir">>
        /\ path_vars = <<"", "", "">>
        /\ PathsOfEnabled(mod_entries) = <<"Mods/B", "Mods/A">>
        /\ game_data = "merged"

====
